---- MODULE Spec2Model ----
(***************************************************************************)
(* source-faker: the read() generator of SourceFaker and the record       *)
(* generators it calls (source_faker/source.py).                          *)
(*                                                                         *)
(* One read invocation is a Python generator: every action below is the   *)
(* code that runs between two suspension points (yield) of read, or up to *)
(* the exception that ends it.  `out` is the sequence of messages the     *)
(* caller has pulled so far.                                               *)
(*                                                                         *)
(* Time is counted in ticks, TicksPerDay ticks to a day, so that two       *)
(* instants can be less than one whole day apart without being equal.     *)
(* Instants are ticks from 0 on.  Python's None is the integer None == -1  *)
(* where the other values are integers, and the empty tuple where the      *)
(* other values are tuples.                                                *)
(***************************************************************************)
EXTENDS Integers, Sequences, FiniteSets, TLC

\* ---------------------------------------------------------------- bounds
MaxCount == 2            \* largest config["count"] of the systematic inputs
MaxStreams == 3          \* longest configured catalog
MaxRuns == 2             \* read invocations in one behaviour

\* ------------------------------------------------------------ environment
NumProducts == 2         \* len(products.json)
EndDate == 9             \* datetime.now() when the module was imported, in ticks
TicksPerDay == 2         \* ticks in a day

\* ------------------------------------------------------ program constants
None == -1
DefaultCount == 0
DefaultPerSync == 500
DefaultPerSlice == 100
PercentStart == 80
PercentLo == 1
PercentHi == 100
PurchaseGate == 70
ReturnGate == 15

StreamNames == {"Users", "Products", "Purchases", "Other"}

VARIABLES
  config,               \* read's argument config: a dict, keys may be missing
  catalog,              \* read's argument catalog.streams, as stream names
  state,                \* read's argument state, the dict generate_state mutates
  prior,                \* the value of state when read was called
  out,                  \* messages yielded so far by this invocation
  pc,                   \* where the generator is suspended
  err,                  \* the exception that ended the generator, or "none"
  fake,                 \* Faker's shared random generator: [seed, n]
  flags,                \* to_generate_users, to_generate_purchases
  purchases_count,
  si,                   \* position of `for stream in catalog.streams` (line 128)
  i,                    \* the index of `for i in range(cursor, count)`
  counters,             \* total_records, records_in_sync, records_in_page
  user,                 \* the user generated in this iteration
  purchases,            \* the purchases of this user still to be yielded
  products,             \* the products still to be yielded
  runs,                 \* the invocations that ended before this one
  purchase_percent_remaining  \* generate_purchases step by step: its budget

vars == <<config, catalog, state, prior, out, pc, err, fake, flags,
          purchases_count, si, i, counters, user, purchases, products, runs,
          purchase_percent_remaining>>

inputs == <<config, catalog, prior>>
locals == <<flags, purchases_count, si, i, counters, user, purchases>>
frame == <<purchase_percent_remaining>>

\* ---------------------------------------------------------------- helpers
Min(a, b) == IF a <= b THEN a ELSE b
Max(a, b) == IF a >= b THEN a ELSE b

Range(s) == {s[k] : k \in 1..Len(s)}

RECURSIVE SeqsOver(_, _)
\* the sequences of distinct elements of S of length at most n
SeqsOver(S, n) ==
  IF n = 0 THEN {<<>>}
  ELSE LET shorter == SeqsOver(S, n - 1)
       IN shorter \cup {Append(s, x) : s \in shorter, x \in S}

Distinct(s) == \A a, b \in 1..Len(s) : a # b => s[a] # s[b]

\* config[key] if key in config else default  (lines 105-108)
ConfigGet(cfg, key, default) ==
  IF key \in DOMAIN cfg THEN cfg[key] ELSE default

count == ConfigGet(config, "count", DefaultCount)
seed == ConfigGet(config, "seed", None)
records_per_sync == ConfigGet(config, "records_per_sync", DefaultPerSync)
records_per_slice == ConfigGet(config, "records_per_slice", DefaultPerSlice)

\* get_stream_cursor without the `or 0`
get_stream_cursor_NoOr(st, stream) ==
  IF stream \in DOMAIN st THEN st[stream].cursor ELSE 0

\* cursor = (state[stream]["cursor"] or 0) if stream in state else 0
get_stream_cursor(st, stream) ==
  IF stream \in DOMAIN st
  THEN (IF st[stream].cursor = None \/ st[stream].cursor = 0
        THEN 0 ELSE st[stream].cursor)
  ELSE 0

\* state["Purchases"]["purchases_count"] if "Purchases" in state else 0
PriorPurchasesCount(st) ==
  IF "Purchases" \in DOMAIN st THEN st["Purchases"].purchases_count ELSE 0

\* ------------------------------------------------------------- the inputs
Absent == -2       \* marks a key that the config dict does not hold

\* the dict that holds the keys whose value is not Absent
MkDict(vals) == [k \in {x \in DOMAIN vals : vals[x] # Absent} |-> vals[k]]

\* the configs: each key missing or set; the caps and the slices up to the
\* count, records_per_sync from 0
Configs ==
  {MkDict([count |-> c, seed |-> s, records_per_sync |-> ps, records_per_slice |-> pl]) :
     c \in {Absent} \cup (1..MaxCount),
     s \in {Absent, 1},
     ps \in {Absent} \cup (0..(MaxCount - 1)),
     pl \in {Absent} \cup (1..(MaxCount - 1))}

\* the configs that leave records_per_sync and records_per_slice to their defaults
PlainConfigs == {cfg \in Configs : DOMAIN cfg \subseteq {"count", "seed"}}

\* the end-to-end run of the connector's description: count=5,
\* records_per_sync=5, records_per_slice=2, seed=42 on Users and Purchases
ExampleConfig == [count |-> 5, seed |-> 42, records_per_sync |-> 5, records_per_slice |-> 2]
ExampleCatalog == <<"Users", "Purchases">>

\* catalog.streams: streams of distinct names; "Other" is a name the connector
\* does not know
Catalogs == {c \in SeqsOver(StreamNames, MaxStreams) : Distinct(c)}

\* the state file of an earlier sync of this connector: none, one whose Users
\* cursor is null (what `or 0` of get_stream_cursor is there for), or one
\* with an entry for each of the three streams
PriorStates ==
  {<<>>}
  \cup {[k \in {"Users"} |-> [cursor |-> None, seed |-> None]]}
  \cup {[k \in {"Users", "Purchases", "Products"} |->
           IF k = "Users" THEN [cursor |-> c, seed |-> None]
           ELSE IF k = "Purchases" THEN [purchases_count |-> 1]
           ELSE [product_count |-> NumProducts]] :
          c \in 1..(MaxCount - 1)}

\* the calls of read that a behaviour can start with: every catalog with a
\* count of at most 1, every config on the Users stream with and without
\* Purchases and on the Products stream alone, and the end-to-end run
Inputs ==
  ({cfg \in PlainConfigs : ConfigGet(cfg, "count", DefaultCount) <= 1}
     \X Catalogs \X PriorStates)
  \cup (Configs \X {<<"Users">>, <<"Users", "Purchases">>, <<"Products">>} \X PriorStates)
  \cup {<<ExampleConfig, ExampleCatalog, <<>>>>}

\* ------------------------------------------------------- Faker (line 110)
\* Faker.seed(seed) resets the generator that all Faker instances share; what
\* it then returns is a function of the seed and of how many values were
\* drawn since.  FakerValue is the n-th value, in 0..3.
FakerValue(s, n) == (((n + s) * (n + s + 1)) \div 2 + s * n) % 4

\* Faker.seed(None) seeds from the operating system's entropy
EntropySeeds == {1, 2}

\* fake.date_time(): an instant between the epoch, tick 0, and now; the model
\* draws it among the last four ticks, where the range up to the end date is
\* one whole day or less than that
fake_date_time(s, n) == (EndDate - 3) + FakerValue(s, n)

\* fake.profile(): the profile fields; birthdate follows the calendar day of
\* the call and not the generator
fake_profile(s, n, today) == [username |-> FakerValue(s, n), birthdate |-> today]

Birthdates == {0, 1}

\* ------------------------------------------------------ record generators
NoUser == [username |-> 0, id |-> 0, created_at |-> 0, updated_at |-> 0]

\* the birthdate left in the profile
DelBirthdate_Kept(profile) == profile

\* del profile["birthdate"]
DelBirthdate(profile) == [k \in (DOMAIN profile) \ {"birthdate"} |-> profile[k]]

\* profile.update(metadata)
DictUpdate(d, e) ==
  [k \in (DOMAIN d) \cup (DOMAIN e) |-> IF k \in DOMAIN e THEN e[k] ELSE d[k]]

\* the two timestamps taken as they are drawn
generate_user_Unordered(f, user_id, today) ==
  DictUpdate(DelBirthdate(fake_profile(f.seed, f.n, today)),
             [id |-> user_id + 1,
              created_at |-> fake_date_time(f.seed, f.n + 1),
              updated_at |-> fake_date_time(f.seed, f.n + 2)])

\* generate_user(fake, user_id), fake having drawn f.n values since seeded
generate_user(f, user_id, today) ==
  LET profile == DelBirthdate(fake_profile(f.seed, f.n, today))
      time_a == fake_date_time(f.seed, f.n + 1)
      time_b == fake_date_time(f.seed, f.n + 2)
      metadata == [id |-> user_id + 1,
                   created_at |-> IF time_a <= time_b THEN time_a ELSE time_b,
                   updated_at |-> IF time_a > time_b THEN time_a ELSE time_b]
  IN DictUpdate(profile, metadata)

\* the generator after generate_user: profile and two date_time draws
FakeAfterUser(f) == [f EXCEPT !.n = f.n + 3]

\* generate_products(): the fixture products.json
generate_products == [k \in 1..NumProducts |-> [id |-> k]]

\* (end_date - start_date).days: timedelta.days rounds towards minus infinity
DaysBetween(start_date, end_date) == (end_date - start_date) \div TicksPerDay

\* random.randrange(n) raises ValueError when n <= 0
RandrangeRaises(n) == n <= 0

\* random_date_in_range(start_date) raises
RandomDateRaises(start_date) == RandrangeRaises(DaysBetween(start_date, EndDate))

\* the number of days drawn up to days_between_dates included
random_date_in_range_Inclusive(start_date) ==
  {start_date + random_number_of_days * TicksPerDay :
     random_number_of_days \in 0..DaysBetween(start_date, EndDate)}

\* the dates random_date_in_range(start_date) can return
random_date_in_range(start_date) ==
  {start_date + random_number_of_days * TicksPerDay :
     random_number_of_days \in 0..(DaysBetween(start_date, EndDate) - 1)}

\* random.randrange(1, 100): the module random is never seeded, so any value
\* of the range can come
Randrange1To100 == PercentLo..(PercentHi - 1)

\* the values the model draws at the gates of lines 225 and 228: both sides of
\* both thresholds
GateDraws == Randrange1To100 \cap {15, 16, 70, 71}

\* the values read draws for the budget of lines 218 and 240, none below 40:
\* a user has one purchase at most
ReadBudgetDraws == Randrange1To100 \cap {50, 79, 80, 99}

Raise == -3        \* marks a call that raised

\* purchased_at (lines 224-226): the values it can take, Raise if the call raises
PurchasedChoices(added_to_cart_at) ==
  UNION {IF added_to_cart_at # None /\ g <= PurchaseGate
         THEN (IF RandomDateRaises(added_to_cart_at) THEN {Raise}
               ELSE random_date_in_range(added_to_cart_at))
         ELSE {None} : g \in GateDraws}

\* returned_at drawn whether or not there is a purchased_at
ReturnedChoices_NoGuard(purchased_at) ==
  UNION {IF g <= ReturnGate
         THEN (IF RandomDateRaises(purchased_at) THEN {Raise}
               ELSE random_date_in_range(purchased_at))
         ELSE {None} : g \in GateDraws}

\* returned_at (lines 227-229)
ReturnedChoices(purchased_at) ==
  UNION {IF purchased_at # None /\ g <= ReturnGate
         THEN (IF RandomDateRaises(purchased_at) THEN {Raise}
               ELSE random_date_in_range(purchased_at))
         ELSE {None} : g \in GateDraws}

Raised == [raised |-> TRUE, list |-> <<>>]

NoPurchase == [id |-> 0, product_id |-> 0, user_id |-> 0, added_to_cart_at |-> None,
               purchased_at |-> None, returned_at |-> None]

\* the index of the user, which is its id less one
PurchaseUserId_Index(usr) == usr.id - 1

\* line 233: "user_id": user["id"]
PurchaseUserId(usr) == usr.id

\* one iteration of the while loop (lines 221-237): the purchase it can build,
\* or raised when random.randrange raises inside it
PurchaseChoices(usr, cnt, k) ==
  IF RandrangeRaises(NumProducts - 1) \/ RandomDateRaises(usr.created_at)
  THEN {[raised |-> TRUE, purchase |-> NoPurchase]}
  ELSE UNION {
    UNION {
      UNION {
        {IF purchased_at = Raise \/ returned_at = Raise
         THEN [raised |-> TRUE, purchase |-> NoPurchase]
         ELSE [raised |-> FALSE,
               purchase |-> [id |-> cnt + k + 1,
                             product_id |-> product_id,
                             user_id |-> PurchaseUserId(usr),
                             added_to_cart_at |-> added_to_cart_at,
                             purchased_at |-> purchased_at,
                             returned_at |-> returned_at]] :
           returned_at \in IF purchased_at = Raise THEN {Raise}
                           ELSE ReturnedChoices(purchased_at)} :
        purchased_at \in PurchasedChoices(added_to_cart_at)} :
      added_to_cart_at \in random_date_in_range(usr.created_at)} :
    product_id \in 1..(NumProducts - 1)}

\* the loop goes on with the budget used up exactly
WhileContinues_AtZero(remaining) == remaining >= 0

\* line 220: while purchase_percent_remaining > 0
WhileContinues(remaining) == remaining > 0

RECURSIVE PurchaseLoop(_, _, _, _, _)
\* the while loop of generate_purchases (lines 220-241), `acc` generated so
\* far, the budget drawn from `draws`
PurchaseLoop(usr, cnt, remaining, acc, draws) ==
  IF ~WhileContinues(remaining) THEN {[raised |-> FALSE, list |-> acc]}
  ELSE LET choices == PurchaseChoices(usr, cnt, Len(acc))
       IN (IF \E c \in choices : c.raised THEN {Raised} ELSE {})
          \cup UNION {PurchaseLoop(usr, cnt, remaining - d, Append(acc, c.purchase), draws) :
                        c \in {x \in choices : ~x.raised}, d \in draws}

\* generate_purchases(fake, user, purchases_count): what it can return
generate_purchases(usr, cnt, draws) ==
  UNION {PurchaseLoop(usr, cnt, PercentStart - d, <<>>, draws) : d \in draws}

\* ---------------------------------------------------------------- messages
DateKeys == {"created_at", "updated_at", "added_to_cart_at", "purchased_at", "returned_at"}

\* datetime.isoformat(): the date and the time of day; None is left alone
isoformat(t) == IF t = None THEN <<>> ELSE <<t \div TicksPerDay, t % TicksPerDay>>

\* generate_record(stream, data); emitted_at is the wall clock and is left out
generate_record(stream, data) ==
  [type |-> "RECORD",
   stream |-> stream,
   data |-> [k \in DOMAIN data |-> IF k \in DateKeys THEN isoformat(data[k]) ELSE data[k]]]

\* a state that holds the checkpointed stream only
StateSet_Delta(st, stream, data) == [k \in {stream} |-> data]

\* state[stream.stream.name] = data
StateSet(st, stream, data) ==
  [k \in (DOMAIN st) \cup {stream} |-> IF k = stream THEN data ELSE st[k]]

\* generate_state(state, stream, data): the message; `stream` is not a field of
\* the message, it records which stream was checkpointed
generate_state(st, stream, data) ==
  [type |-> "STATE", stream |-> stream, data |-> StateSet(st, stream, data)]

IsRecord(m, stream) == m.type = "RECORD" /\ m.stream = stream
IsCheckpoint(m, stream) == m.type = "STATE" /\ m.stream = stream

\* ---------------------------------------------------------- read (82-170)
NoCounters == [total_records |-> 0, records_in_sync |-> 0, records_in_page |-> 0]
NoFlags == [to_generate_users |-> FALSE, to_generate_purchases |-> FALSE]
NoFake == [seed |-> 0, n |-> 0]

\* a call of read(logger, config, catalog, state): nothing has run yet
Called(cfg, cat, st) ==
  /\ config = cfg
  /\ catalog = cat
  /\ state = st
  /\ prior = st
  /\ out = <<>>
  /\ pc = "start"
  /\ err = "none"
  /\ fake = NoFake
  /\ flags = NoFlags
  /\ purchases_count = 0
  /\ si = 1
  /\ i = 0
  /\ counters = NoCounters
  /\ user = NoUser
  /\ purchases = <<>>
  /\ products = <<>>
  /\ purchase_percent_remaining = 0

Init ==
  /\ \E x \in Inputs : Called(x[1], x[2], x[3])
  /\ runs = <<>>

\* read without the check of line 125
ConfigInvalid_NoCheck(to_generate_users, to_generate_purchases) == FALSE

\* line 125: if to_generate_purchases and not to_generate_users
ConfigInvalid(to_generate_users, to_generate_purchases) ==
  to_generate_purchases /\ ~to_generate_users

ConfigError == "Purchases stream cannot be enabled without Users stream"
RandrangeError == "empty range for randrange()"

\* the chain without its else: an unknown name is passed over
Branch_SkipUnknown(name) ==
  CASE name = "Users" -> "users"
    [] name = "Products" -> "products"
    [] OTHER -> "skip"

\* the branch of the if/elif chain of lines 129-170 that a stream name takes
Branch(name) ==
  CASE name = "Users" -> "users"
    [] name = "Products" -> "products"
    [] name = "Purchases" -> "skip"
    [] OTHER -> "raise"

\* the cap tested one record late
CapReached_Late(in_sync, per_sync) == in_sync > per_sync

\* line 152: if records_in_sync == records_per_sync
CapReached(in_sync, per_sync) == in_sync = per_sync

\* line 148: if records_in_page == records_per_slice
SliceFull(in_page, per_slice) == in_page = per_slice

\* the cursor taken from the count of this sync
UsersCheckpointData_InSync(cnt, sd) == [cursor |-> cnt.records_in_sync, seed |-> sd]

\* lines 149 and 155: {"cursor": total_records, "seed": seed}
UsersCheckpointData(cnt, sd) == [cursor |-> cnt.total_records, seed |-> sd]

\* the counter left as it is
NextPurchasesCount_Stuck(n) == n

\* line 146: purchases_count += 1
NextPurchasesCount(n) == n + 1

\* the Purchases checkpoint never yielded
HasPurchasesStream_Never(fl) == FALSE

\* line 156: if purchases_stream is not None
HasPurchasesStream(fl) == fl.to_generate_purchases

\* the count of the products but one
ProductsCheckpointData_LastIndex(prods) == [product_count |-> Len(prods) - 1]

\* line 163: {"product_count": len(products)}
ProductsCheckpointData(prods) == [product_count |-> Len(prods)]

\* lines 105-126: the configuration, the seed, which streams are enabled
Start ==
  /\ pc = "start"
  /\ \E s \in (IF seed = None THEN EntropySeeds ELSE {seed}) :
       fake' = [seed |-> s, n |-> 0]
  /\ purchases_count' = PriorPurchasesCount(state)
  /\ LET to_generate_users == "Users" \in Range(catalog)
         to_generate_purchases == "Purchases" \in Range(catalog)
     IN /\ flags' = [to_generate_users |-> to_generate_users,
                     to_generate_purchases |-> to_generate_purchases]
        /\ IF ConfigInvalid(to_generate_users, to_generate_purchases)
           THEN pc' = "raised" /\ err' = ConfigError
           ELSE pc' = "streams" /\ err' = err
  /\ si' = 1
  /\ UNCHANGED <<inputs, frame, state, out, i, counters, user, purchases, products, runs>>

\* lines 128-130, 159-160, 165-170: the next stream of the catalog
NextStream ==
  /\ pc = "streams"
  /\ IF si > Len(catalog)
     THEN /\ pc' = "done"
          /\ UNCHANGED <<err, i, counters, products, si>>
     ELSE CASE Branch(catalog[si]) = "users" ->
                 LET cursor == get_stream_cursor(state, "Users")
                 IN /\ counters' = [total_records |-> cursor, records_in_sync |-> 0,
                                    records_in_page |-> 0]
                    /\ i' = cursor
                    /\ pc' = "users"
                    /\ UNCHANGED <<err, products, si>>
            [] Branch(catalog[si]) = "products" ->
                 /\ products' = generate_products
                 /\ pc' = "products"
                 /\ UNCHANGED <<err, i, counters, si>>
            [] Branch(catalog[si]) = "skip" ->
                 /\ si' = si + 1
                 /\ UNCHANGED <<pc, err, i, counters, products>>
            [] OTHER ->
                 /\ pc' = "raised"
                 /\ err' = catalog[si]
                 /\ UNCHANGED <<i, counters, products, si>>
  /\ UNCHANGED <<inputs, frame, state, out, fake, flags, purchases_count, user, purchases, runs>>

\* lines 135-140: one more user
EmitUser ==
  /\ pc = "users"
  /\ i < count
  /\ \E today \in Birthdates : user' = generate_user(fake, i, today)
  /\ fake' = FakeAfterUser(fake)
  /\ out' = Append(out, generate_record("Users", user'))
  /\ counters' = [total_records |-> counters.total_records + 1,
                  records_in_sync |-> counters.records_in_sync + 1,
                  records_in_page |-> counters.records_in_page + 1]
  /\ pc' = "user"
  /\ UNCHANGED <<inputs, frame, state, err, flags, purchases_count, si, i, purchases, products, runs>>

\* lines 142-143: the purchases of this user
GeneratePurchases ==
  /\ pc = "user"
  /\ IF flags.to_generate_purchases
     THEN \E r \in generate_purchases(user, purchases_count, ReadBudgetDraws) :
            IF r.raised
            THEN /\ pc' = "raised"
                 /\ err' = RandrangeError
                 /\ UNCHANGED purchases
            ELSE /\ pc' = "purchases"
                 /\ purchases' = r.list
                 /\ UNCHANGED err
     ELSE /\ pc' = "purchases"
          /\ UNCHANGED <<purchases, err>>
  /\ UNCHANGED <<inputs, frame, state, out, fake, flags, purchases_count, si, i, counters, user,
                 products, runs>>

\* lines 144-146
EmitPurchase ==
  /\ pc = "purchases"
  /\ purchases # <<>>
  /\ out' = Append(out, generate_record("Purchases", Head(purchases)))
  /\ purchases' = Tail(purchases)
  /\ purchases_count' = NextPurchasesCount(purchases_count)
  /\ UNCHANGED <<inputs, frame, state, pc, err, fake, flags, si, i, counters, user, products, runs>>

\* lines 148-153: the checkpoint of a full slice, then the cap of the sync
EndOfUser ==
  /\ pc = "purchases"
  /\ purchases = <<>>
  /\ IF SliceFull(counters.records_in_page, records_per_slice)
     THEN LET m == generate_state(state, "Users", UsersCheckpointData(counters, seed))
          IN /\ out' = Append(out, m)
             /\ state' = m.data
             /\ counters' = [counters EXCEPT !.records_in_page = 0]
     ELSE UNCHANGED <<out, state, counters>>
  /\ IF CapReached(counters.records_in_sync, records_per_sync)
     THEN pc' = "users_end" /\ i' = i
     ELSE pc' = "users" /\ i' = i + 1
  /\ UNCHANGED <<inputs, frame, err, fake, flags, purchases_count, si, user, purchases, products, runs>>

\* range(cursor, count) is exhausted
RangeExhausted ==
  /\ pc = "users"
  /\ i >= count
  /\ pc' = "users_end"
  /\ UNCHANGED <<inputs, frame, state, out, err, fake, locals, products, runs>>

\* line 155
UsersCheckpoint ==
  /\ pc = "users_end"
  /\ LET m == generate_state(state, "Users", UsersCheckpointData(counters, seed))
     IN /\ out' = Append(out, m)
        /\ state' = m.data
  /\ IF HasPurchasesStream(flags)
     THEN pc' = "purchases_end" /\ si' = si
     ELSE pc' = "streams" /\ si' = si + 1
  /\ UNCHANGED <<inputs, frame, err, fake, flags, purchases_count, i, counters, user, purchases,
                 products, runs>>

\* lines 156-157
PurchasesCheckpoint ==
  /\ pc = "purchases_end"
  /\ LET m == generate_state(state, "Purchases", [purchases_count |-> purchases_count])
     IN /\ out' = Append(out, m)
        /\ state' = m.data
  /\ pc' = "streams"
  /\ si' = si + 1
  /\ UNCHANGED <<inputs, frame, err, fake, flags, purchases_count, i, counters, user, purchases,
                 products, runs>>

\* lines 161-162
EmitProduct ==
  /\ pc = "products"
  /\ products # <<>>
  /\ out' = Append(out, generate_record("Products", Head(products)))
  /\ products' = Tail(products)
  /\ UNCHANGED <<inputs, frame, state, pc, err, fake, locals, runs>>

\* line 163
ProductsCheckpoint ==
  /\ pc = "products"
  /\ products = <<>>
  /\ LET m == generate_state(state, "Products", ProductsCheckpointData(generate_products))
     IN /\ out' = Append(out, m)
        /\ state' = m.data
  /\ pc' = "streams"
  /\ si' = si + 1
  /\ UNCHANGED <<inputs, frame, err, fake, flags, purchases_count, i, counters, user, purchases,
                 products, runs>>

\* the state the platform keeps: the data of the last state message of the
\* invocation, or the state it passed in when there was none
LastState(msgs, st) ==
  LET ks == {k \in 1..Len(msgs) : msgs[k].type = "STATE"}
  IN IF ks = {} THEN st ELSE msgs[CHOOSE k \in ks : \A j \in ks : j <= k].data

ThisRun == [config |-> config, catalog |-> catalog, prior |-> prior, out |-> out,
            err |-> err, pc |-> pc]

\* a call of read, as the first conjuncts of an action
CalledAgain(cfg, cat, st) ==
  /\ config' = cfg
  /\ catalog' = cat
  /\ state' = st
  /\ prior' = st
  /\ out' = <<>>
  /\ pc' = "start"
  /\ err' = "none"
  /\ fake' = NoFake
  /\ flags' = NoFlags
  /\ purchases_count' = 0
  /\ si' = 1
  /\ i' = 0
  /\ counters' = NoCounters
  /\ user' = NoUser
  /\ purchases' = <<>>
  /\ products' = <<>>
  /\ UNCHANGED frame

\* the next sync: read is called again with the same config and catalog and
\* the state the previous sync left
Resume ==
  /\ pc \in {"done", "raised"}
  /\ Len(runs) + 1 < MaxRuns
  /\ runs' = Append(runs, ThisRun)
  /\ CalledAgain(config, catalog, LastState(out, prior))

NotPurchases(name) == name # "Purchases"

\* the catalog with the Purchases stream switched on or off
TogglePurchases(cat) ==
  IF "Purchases" \in Range(cat) THEN SelectSeq(cat, NotPurchases)
  ELSE Append(cat, "Purchases")

\* a second, independent sync: read is called with the same config and the
\* same prior state, with the same catalog or with Purchases switched
Rerun ==
  /\ pc \in {"done", "raised"}
  /\ runs = <<>>
  /\ runs' = Append(runs, ThisRun)
  /\ \E cat \in {catalog, TogglePurchases(catalog)} : CalledAgain(config, cat, prior)

Next ==
  \/ Start
  \/ NextStream
  \/ EmitUser
  \/ GeneratePurchases
  \/ EmitPurchase
  \/ EndOfUser
  \/ RangeExhausted
  \/ UsersCheckpoint
  \/ PurchasesCheckpoint
  \/ EmitProduct
  \/ ProductsCheckpoint
  \/ Resume

Spec == Init /\ [][Next]_vars

\* two independent syncs on the same input
NextRerun ==
  \/ Start
  \/ NextStream
  \/ EmitUser
  \/ GeneratePurchases
  \/ EmitPurchase
  \/ EndOfUser
  \/ RangeExhausted
  \/ UsersCheckpoint
  \/ PurchasesCheckpoint
  \/ EmitProduct
  \/ ProductsCheckpoint
  \/ Rerun

InitRerun ==
  /\ \E cfg \in PlainConfigs, cat \in Catalogs, st \in PriorStates : Called(cfg, cat, st)
  /\ runs = <<>>

SpecRerun == InitRerun /\ [][NextRerun]_vars

\* the caller stops pulling right after a checkpoint, at whatever point of the
\* sync, and the next sync starts from the state of that checkpoint
ResumeFromCheckpoint ==
  /\ out # <<>>
  /\ out[Len(out)].type = "STATE"
  /\ Len(runs) + 1 < MaxRuns
  /\ runs' = Append(runs, ThisRun)
  /\ CalledAgain(config, catalog, out[Len(out)].data)

\* syncs resumed from any of the checkpoints
NextResume ==
  \/ Start
  \/ NextStream
  \/ EmitUser
  \/ GeneratePurchases
  \/ EmitPurchase
  \/ EndOfUser
  \/ RangeExhausted
  \/ UsersCheckpoint
  \/ PurchasesCheckpoint
  \/ EmitProduct
  \/ ProductsCheckpoint
  \/ ResumeFromCheckpoint

SpecResume == Init /\ [][NextResume]_vars

\* ------------------------------------- the record generators on their own
\* generate_user and generate_purchases called outside read, on arguments of
\* their own: pc is "gen" before the call, "returned" or "raised" after it.

\* the span of the created_at of the users given to generate_purchases, in
\* ticks before the end date
GenSpan == 8

\* users created from GenSpan ticks before the end date to one tick after it
GenUsers ==
  {[NoUser EXCEPT !.id = 1, !.created_at = c, !.updated_at = c] :
     c \in (EndDate - GenSpan)..(EndDate + 1)}

\* Faker generators, some values drawn already: between them the next two
\* timestamps are every pair of the values of fake_date_time
GenFakes == {[seed |-> s, n |-> n] : s \in 1..8, n \in 0..7}

\* the values drawn for the budget: two purchases for a user at most
GenBudgetDraws == Randrange1To100 \cap {30, 79, 80}

\* the frame of a call outside read
GenCalled(f, index, usr, cnt) ==
  /\ config = <<>>
  /\ catalog = <<>>
  /\ state = <<>>
  /\ prior = <<>>
  /\ out = <<>>
  /\ pc = "gen"
  /\ err = "none"
  /\ fake = f
  /\ flags = NoFlags
  /\ purchases_count = cnt
  /\ si = 1
  /\ i = index
  /\ counters = NoCounters
  /\ user = usr
  /\ purchases = <<>>
  /\ products = <<>>
  /\ runs = <<>>
  /\ purchase_percent_remaining = 0

InitGen ==
  \/ \E f \in GenFakes, index \in 0..2 : GenCalled(f, index, NoUser, 0)
  \/ \E usr \in GenUsers, cnt \in 0..1 : GenCalled(NoFake, 0, usr, cnt)

\* user = generate_user(fake, i)
CallGenerateUser ==
  /\ pc = "gen"
  /\ user = NoUser
  /\ \E today \in Birthdates : user' = generate_user(fake, i, today)
  /\ fake' = FakeAfterUser(fake)
  /\ pc' = "returned"
  /\ UNCHANGED <<inputs, frame, state, out, err, flags, purchases_count, si, i,
                 counters, purchases, products, runs>>

\* purchases = generate_purchases(fake, user, purchases_count)
CallGeneratePurchases ==
  /\ pc = "gen"
  /\ user # NoUser
  /\ \E r \in generate_purchases(user, purchases_count, GenBudgetDraws) :
       IF r.raised
       THEN /\ pc' = "raised"
            /\ err' = RandrangeError
            /\ UNCHANGED purchases
       ELSE /\ pc' = "returned"
            /\ purchases' = r.list
            /\ UNCHANGED err
  /\ UNCHANGED <<inputs, frame, state, out, fake, flags, purchases_count, si, i, counters,
                 user, products, runs>>

NextGen ==
  \/ CallGenerateUser
  \/ CallGeneratePurchases

SpecGen == InitGen /\ [][NextGen]_vars

\* --------------------------------- generate_purchases, one draw at a time
\* The body of generate_purchases step by step, every value of
\* random.randrange(1, 100) drawn for the budget: pc is "gp_start" before line
\* 218, "gp_while" at the test of line 220, "returned" or "raised" at the end.
\* i is the i of generate_purchases.

\* the users given to the loop: created one whole day before the end date,
\* where every sampling returns the date it was given, and less than a day
\* before it, where the first sampling raises
LoopUsers ==
  {[NoUser EXCEPT !.id = 1, !.created_at = c, !.updated_at = c] :
     c \in {EndDate - TicksPerDay, EndDate - 1}}

\* lines 215-217: purchases = [], purchase_percent_remaining = 80
InitLoop ==
  \E usr \in LoopUsers, cnt \in 0..1 :
    /\ config = <<>>
    /\ catalog = <<>>
    /\ state = <<>>
    /\ prior = <<>>
    /\ out = <<>>
    /\ pc = "gp_start"
    /\ err = "none"
    /\ fake = NoFake
    /\ flags = NoFlags
    /\ purchases_count = cnt
    /\ si = 1
    /\ i = 0
    /\ counters = NoCounters
    /\ user = usr
    /\ purchases = <<>>
    /\ products = <<>>
    /\ runs = <<>>
    /\ purchase_percent_remaining = PercentStart
  
\* lines 218-219: the first draw, i = 0
GpFirstDraw ==
  /\ pc = "gp_start"
  /\ \E d \in Randrange1To100 :
       purchase_percent_remaining' = purchase_percent_remaining - d
  /\ i' = 0
  /\ pc' = "gp_while"
  /\ UNCHANGED <<inputs, state, out, err, fake, flags, purchases_count, si, counters,
                 user, purchases, products, runs>>

\* the purchases one iteration can build that stay in the cart (the draw of
\* line 225 over 70): the budget does not depend on that draw
CartChoices(usr, cnt, k) ==
  {c \in PurchaseChoices(usr, cnt, k) : c.raised \/ c.purchase.purchased_at = None}

\* lines 220-241: one iteration of the while loop
GpIterate ==
  /\ pc = "gp_while"
  /\ WhileContinues(purchase_percent_remaining)
  /\ \E c \in CartChoices(user, purchases_count, i) :
       IF c.raised
       THEN /\ pc' = "raised"
            /\ err' = RandrangeError
            /\ UNCHANGED <<purchases, purchase_percent_remaining, i>>
       ELSE /\ purchases' = Append(purchases, c.purchase)
            /\ \E d \in Randrange1To100 :
                 purchase_percent_remaining' = purchase_percent_remaining - d
            /\ i' = i + 1
            /\ UNCHANGED <<pc, err>>
  /\ UNCHANGED <<inputs, state, out, fake, flags, purchases_count, si,
                 counters, user, products, runs>>

\* lines 220, 242: the test fails, return purchases
GpReturn ==
  /\ pc = "gp_while"
  /\ ~WhileContinues(purchase_percent_remaining)
  /\ pc' = "returned"
  /\ UNCHANGED <<inputs, frame, state, out, err, fake, flags, purchases_count, si, i,
                 counters, user, purchases, products, runs>>

NextLoop ==
  \/ GpFirstDraw
  \/ GpIterate
  \/ GpReturn

\* the interpreter goes on running the function: a step that can be taken is
\* taken
SpecLoop == InitLoop /\ [][NextLoop]_vars /\ WF_vars(NextLoop)

TypeOK ==
  /\ pc \in {"start", "streams", "users", "user", "purchases", "users_end",
             "purchases_end", "products", "done", "raised", "gen", "returned",
             "gp_start", "gp_while"}
  /\ Len(runs) < MaxRuns

\* ------------------------------------------------- reading the output
IsUserRecord(m) == IsRecord(m, "Users")
IsPurchaseRecord(m) == IsRecord(m, "Purchases")
IsProductRecord(m) == IsRecord(m, "Products")

Enabled(cat, name) == \E k \in 1..Len(cat) : cat[k] = name
IndexOf(cat, name) == CHOOSE k \in 1..Len(cat) : cat[k] = name
Before(cat, a, b) == Enabled(cat, a) /\ Enabled(cat, b) /\ IndexOf(cat, a) < IndexOf(cat, b)

UserRecords(msgs) == SelectSeq(msgs, IsUserRecord)
PurchaseRecords(msgs) == SelectSeq(msgs, IsPurchaseRecord)
Ids(recs) == [k \in 1..Len(recs) |-> recs[k].data.id]

Positions(msgs, stream, type) ==
  {k \in 1..Len(msgs) : msgs[k].type = type /\ msgs[k].stream = stream}

NumBefore(msgs, stream, type, k) ==
  Cardinality({j \in Positions(msgs, stream, type) : j <= k})

MaxOf(S) == CHOOSE x \in S : \A y \in S : y <= x
MinOf(S) == CHOOSE x \in S : \A y \in S : x <= y

\* the Users cursor and the purchases_count that a state holds
HeldCursor(st) ==
  IF "Users" \in DOMAIN st /\ st["Users"].cursor # None THEN st["Users"].cursor ELSE 0
HeldPurchasesCount(st) ==
  IF "Purchases" \in DOMAIN st THEN st["Purchases"].purchases_count ELSE 0

\* the loop over the users has ended, by exhaustion or by the cap
UsersLoopEnded ==
  /\ Enabled(catalog, "Users")
  /\ pc # "start"
  /\ \/ pc \in {"users_end", "purchases_end"}
     \/ si > IndexOf(catalog, "Users")

\* ... and its final checkpoints were yielded
UsersStreamDone ==
  UsersLoopEnded /\ pc \notin {"users_end", "purchases_end"}

NumUsersOut == Len(UserRecords(out))

\* ------------------------------------------------------------------ claims

\* C1: with a Purchases stream and no Users stream in the catalog, read raises
\* the configuration error and has emitted no message: the generator never
\* gets past its start, whatever else the catalog, the config and the prior
\* state hold.
C1_ConfigErrorBeforeAnyMessage ==
  (Enabled(catalog, "Purchases") /\ ~Enabled(catalog, "Users")) =>
     /\ out = <<>>
     /\ pc \in {"start", "raised"}
     /\ pc = "raised" => err = ConfigError

C1_Witness ==
  /\ pc = "raised"
  /\ err = ConfigError
  /\ Enabled(catalog, "Other")
  /\ Enabled(catalog, "Products")
  /\ prior # <<>>

\* C3: the ids of the User records of an invocation whose prior state holds
\* the cursor c are c+1, c+2, ... in this order: none is c or less.
C3_UserIdsFollowCursor ==
  LET ids == Ids(UserRecords(out))
  IN \A k \in 1..Len(ids) : ids[k] = HeldCursor(prior) + k

C3_Witness ==
  /\ HeldCursor(prior) >= 1
  /\ NumUsersOut >= 1
  /\ pc = "done"

\* C4 as stated: for every records_per_sync >= 0 at most records_per_sync User
\* records are emitted, and min(records_per_sync, max(count - cursor, 0))
\* once the loop over the users has ended.
C4_CapForEveryPerSync ==
  (Enabled(catalog, "Users") /\ records_per_sync >= 0) =>
     /\ NumUsersOut <= records_per_sync
     /\ UsersLoopEnded =>
          NumUsersOut = Min(records_per_sync, Max(count - HeldCursor(prior), 0))

\* C4 amended: the cap is tested after each emission, for equality, so it
\* holds for every records_per_sync >= 1: at most
\* min(records_per_sync, max(count - cursor, 0)) User records are emitted, and
\* exactly that many once the loop over the users has ended; with
\* records_per_sync = 0 the cap never applies and the bound is
\* max(count - cursor, 0).
C4_CapForPositivePerSync ==
  (Enabled(catalog, "Users") /\ records_per_sync >= 0) =>
     LET remaining == Max(count - HeldCursor(prior), 0)
         limit == IF records_per_sync >= 1 THEN Min(records_per_sync, remaining)
                  ELSE remaining
     IN /\ NumUsersOut <= limit
        /\ UsersLoopEnded => NumUsersOut = limit

C4_Witness ==
  /\ UsersLoopEnded
  /\ records_per_sync >= 1
  /\ NumUsersOut = records_per_sync
  /\ count - HeldCursor(prior) > records_per_sync

\* C5: every Users checkpoint carries cursor = prior cursor + User records
\* emitted before it and the configured seed; between two consecutive User
\* records there is a Users checkpoint exactly when the first of them is a
\* records_per_slice-th one, and it then stands right before the second, after
\* the purchases of the first; after the last User record come the
\* intermediate checkpoint, if that record is a records_per_slice-th one, and
\* then the final checkpoint.
C5_SliceCheckpoints ==
  LET U(k) == NumBefore(out, "Users", "RECORD", k)
      total == U(Len(out))
      userPos(n) == CHOOSE k \in Positions(out, "Users", "RECORD") : U(k) = n
      ckpts(a, b) == {k \in Positions(out, "Users", "STATE") : a <= k /\ k <= b}
      last == IF total = 0 THEN 0 ELSE userPos(total)
      after == ckpts(last + 1, Len(out))
      full == total >= 1 /\ total % records_per_slice = 0
  IN /\ \A k \in Positions(out, "Users", "STATE") :
          out[k].data["Users"] = [cursor |-> HeldCursor(prior) + U(k), seed |-> seed]
     /\ \A n \in 1..(total - 1) :
          ckpts(userPos(n), userPos(n + 1)) =
             IF n % records_per_slice = 0 THEN {userPos(n + 1) - 1} ELSE {}
     /\ total >= 1 => ckpts(1, userPos(1)) = {}
     /\ Cardinality(after) <= IF full THEN 2 ELSE 1
     /\ pc = "users_end" => Cardinality(after) = IF full THEN 1 ELSE 0
     /\ UsersStreamDone => Cardinality(after) = IF full THEN 2 ELSE 1
     /\ (full /\ (after # {} \/ pc = "users")) =>
          /\ after # {}
          /\ \A k \in (last + 1)..(MinOf(after) - 1) : IsPurchaseRecord(out[k])
     /\ (config = ExampleConfig /\ prior = <<>> /\ UsersStreamDone) =>
          /\ total = 5
          /\ {<<U(k), out[k].data["Users"].cursor>> : k \in Positions(out, "Users", "STATE")}
                = {<<2, 2>>, <<4, 4>>, <<5, 5>>}
          /\ Cardinality(Positions(out, "Users", "STATE")) = 3

C5_WitnessExample ==
  /\ config = ExampleConfig
  /\ catalog = ExampleCatalog
  /\ prior = <<>>
  /\ pc = "done"
  /\ Len(PurchaseRecords(out)) >= 3

C5_Witness ==
  /\ UsersStreamDone
  /\ NumUsersOut = 2
  /\ Cardinality(Positions(out, "Users", "STATE")) = 3
  /\ Len(PurchaseRecords(out)) >= 2

\* C6: once the loop over the users has ended read yields a final Users
\* checkpoint, after every User and Purchase record; the message right after
\* it is a Purchases checkpoint if and only if Purchases is enabled, there is
\* no other Purchases checkpoint, and its purchases_count is the prior
\* purchases_count plus the number of Purchase records of this invocation.
C6_FinalCheckpoints ==
  LET uc == Positions(out, "Users", "STATE")
      pcs == Positions(out, "Purchases", "STATE")
      recs == Positions(out, "Users", "RECORD") \cup Positions(out, "Purchases", "RECORD")
  IN /\ pc = "purchases_end" => (uc # {} /\ MaxOf(uc) = Len(out) /\ pcs = {})
     /\ ~UsersLoopEnded => pcs = {}
     /\ UsersStreamDone =>
          /\ uc # {}
          /\ \A k \in recs : k < MaxOf(uc)
          /\ IF Enabled(catalog, "Purchases")
             THEN /\ pcs = {MaxOf(uc) + 1}
                  /\ out[MaxOf(uc) + 1].data["Purchases"] =
                       [purchases_count |->
                          HeldPurchasesCount(prior) + Len(PurchaseRecords(out))]
             ELSE pcs = {}

C6_Witness ==
  /\ UsersStreamDone
  /\ Enabled(catalog, "Purchases")
  /\ HeldPurchasesCount(prior) >= 1
  /\ Len(PurchaseRecords(out)) >= 1
  /\ counters.records_in_sync = records_per_sync

C6_WitnessNoPurchases ==
  /\ UsersStreamDone
  /\ ~Enabled(catalog, "Purchases")
  /\ NumUsersOut >= 1

RECURSIVE Concat(_)
\* the outputs of the runs, one after the other
Concat(rs) == IF rs = <<>> THEN <<>> ELSE Head(rs).out \o Concat(Tail(rs))

AllRuns == Append(runs, ThisRun)

EmittedState(msgs) == \E k \in 1..Len(msgs) : msgs[k].type = "STATE"

\* C2: over the invocations of a chain with Users and Purchases enabled, each
\* started from the last state that the one before emitted, every Purchase id
\* is the one before plus 1, and the first id of an invocation is the
\* purchases_count of its prior state plus 1.
C2_PurchaseIdsContinuous ==
  (Enabled(catalog, "Users") /\ Enabled(catalog, "Purchases")
     /\ \A r \in 1..Len(runs) : EmittedState(runs[r].out)) =>
     /\ LET ids == Ids(PurchaseRecords(Concat(AllRuns)))
        IN \A k \in 1..(Len(ids) - 1) : ids[k + 1] = ids[k] + 1
     /\ \A r \in 1..Len(AllRuns) :
          LET ids == Ids(PurchaseRecords(AllRuns[r].out))
          IN ids # <<>> => ids[1] = HeldPurchasesCount(AllRuns[r].prior) + 1

\* C7: two invocations with the same seed, the same catalog and the same prior
\* state yield the same messages, one by one (the emission time and the
\* birthdate are not part of a message here).
C7_SameInputSameOutput ==
  \A r \in 1..Len(runs) :
    (seed # None /\ runs[r].config = config /\ runs[r].catalog = catalog
       /\ runs[r].prior = prior) =>
      /\ \A k \in 1..Min(Len(runs[r].out), Len(out)) : runs[r].out[k] = out[k]
      /\ pc \in {"done", "raised"} => Len(runs[r].out) = Len(out)

\* C8: two invocations with the same seed (a seed is configured) and the same
\* Users cursor yield the same User records, one by one, whatever the catalogs.
C8_SameSeedSameUsers ==
  \A r \in 1..Len(runs) :
    (seed # None /\ ConfigGet(runs[r].config, "seed", None) = seed
       /\ HeldCursor(runs[r].prior) = HeldCursor(prior)) =>
      LET a == UserRecords(runs[r].out)
          b == UserRecords(out)
      IN \A k \in 1..Min(Len(a), Len(b)) : a[k] = b[k]

C8_Witness ==
  /\ runs # <<>>
  /\ seed # None
  /\ runs[1].catalog # catalog
  /\ Len(UserRecords(runs[1].out)) >= 2
  /\ NumUsersOut >= 2
  /\ Len(PurchaseRecords(runs[1].out)) >= 1

\* C9 as stated: with an unrecognized stream in the catalog (and no Purchases
\* without Users) the invocation ends with the unrecognized-stream error and
\* has emitted no message, wherever that stream stands.
C9_UnrecognizedStreamNoMessage ==
  (Enabled(catalog, "Other") /\ (Enabled(catalog, "Purchases") => Enabled(catalog, "Users"))
     /\ pc \in {"done", "raised"} /\ err # RandrangeError) =>
    /\ pc = "raised"
    /\ err = "Other"
    /\ out = <<>>

\* C9 amended: with an unrecognized stream in the catalog the invocation never
\* ends normally; the unrecognized-stream error is raised when the loop over
\* the catalog reaches that stream, after the messages of the Users stream
\* (with its Purchases) and of the Products stream that stand before it, all
\* of them, and no message of a stream that stands after it is emitted; any
\* other error is the configuration error or the one of purchase generation.
C9_UnrecognizedStreamRaisedInCatalogOrder ==
  Enabled(catalog, "Other") =>
    /\ pc # "done"
    /\ \A k \in 1..Len(out) :
         /\ out[k].stream \in {"Users", "Purchases"} => Before(catalog, "Users", "Other")
         /\ out[k].stream = "Products" => Before(catalog, "Products", "Other")
    /\ pc = "raised" =>
         \/ err = "Other"
         \/ err = ConfigError /\ out = <<>> /\ ~Enabled(catalog, "Users")
         \/ err = RandrangeError /\ Enabled(catalog, "Purchases")
    /\ (pc = "raised" /\ err = "Other") =>
         /\ Before(catalog, "Users", "Other") =>
              /\ Positions(out, "Users", "STATE") # {}
              /\ Enabled(catalog, "Purchases") => Positions(out, "Purchases", "STATE") # {}
         /\ Before(catalog, "Products", "Other") =>
              /\ Cardinality(Positions(out, "Products", "RECORD")) = NumProducts
              /\ Positions(out, "Products", "STATE") # {}

C9_Witness ==
  /\ pc = "raised"
  /\ err = "Other"
  /\ NumUsersOut >= 1
  /\ Len(PurchaseRecords(out)) >= 1

\* C10 as stated: with Users and Products enabled no message of Users or
\* Purchases comes after a Product record, in whatever order the catalog lists
\* the streams.
C10_UsersAlwaysBeforeProducts ==
  (Enabled(catalog, "Users") /\ Enabled(catalog, "Products")) =>
    \A j, k \in 1..Len(out) :
      (j < k /\ IsProductRecord(out[j])) => out[k].stream \notin {"Users", "Purchases"}

\* C10 amended: the streams are emitted in the order of the catalog.  With
\* Users before Products, every message of Users and Purchases, the final
\* checkpoints included, comes before the first message of Products; with
\* Products before Users, every Product record and the Products checkpoint
\* come before the first message of Users and Purchases.
C10_CatalogOrder ==
  (Enabled(catalog, "Users") /\ Enabled(catalog, "Products")) =>
    LET ups == {k \in 1..Len(out) : out[k].stream \in {"Users", "Purchases"}}
        prs == {k \in 1..Len(out) : out[k].stream = "Products"}
    IN IF Before(catalog, "Users", "Products")
       THEN /\ \A j \in ups, k \in prs : j < k
            /\ prs # {} =>
                 /\ Positions(out, "Users", "STATE") # {}
                 /\ Enabled(catalog, "Purchases") => Positions(out, "Purchases", "STATE") # {}
       ELSE /\ \A j \in prs, k \in ups : j < k
            /\ ups # {} =>
                 /\ Cardinality(Positions(out, "Products", "RECORD")) = NumProducts
                 /\ Positions(out, "Products", "STATE") # {}

C10_Witness ==
  /\ pc = "done"
  /\ Before(catalog, "Users", "Products")
  /\ Enabled(catalog, "Purchases")
  /\ Len(PurchaseRecords(out)) >= 1
  /\ Positions(out, "Products", "RECORD") # {}

C10_WitnessProductsFirst ==
  /\ pc = "done"
  /\ Before(catalog, "Products", "Users")
  /\ NumUsersOut >= 1

\* C11: with Products as the only stream of the catalog the messages are one
\* Record per product of the fixture, in the order of the fixture, and then
\* one checkpoint whose Products entry is the length of the fixture, and
\* nothing else; every invocation of a chain, whatever its config and its
\* prior state, yields the same records and the same product_count.
C11_ProductsAlone ==
  catalog = <<"Products">> =>
    /\ Len(out) <= NumProducts + 1
    /\ \A k \in 1..Len(out) :
         IF k <= NumProducts
         THEN /\ IsProductRecord(out[k])
              /\ out[k].data = generate_products[k]
         ELSE /\ IsCheckpoint(out[k], "Products")
              /\ out[k].data["Products"] = [product_count |-> NumProducts]
    /\ pc \in {"start", "streams", "products", "done"}
    /\ pc = "done" => Len(out) = NumProducts + 1
    /\ \A r \in 1..Len(runs) :
         /\ runs[r].pc = "done"
         /\ \A k \in 1..Len(out) :
              IF k <= NumProducts THEN runs[r].out[k] = out[k]
              ELSE runs[r].out[k].data["Products"] = out[k].data["Products"]

C11_Witness ==
  /\ catalog = <<"Products">>
  /\ pc = "done"
  /\ runs # <<>>
  /\ runs[1].prior # prior
  /\ DOMAIN config = {"count", "seed", "records_per_sync", "records_per_slice"}

\* C12: a checkpoint message holds the entry of every stream: the new value
\* for the stream that is checkpointed (the cursor reached and the seed, the
\* purchases counted, the products counted), and for every other stream the
\* entry of the checkpoint before it in this invocation, or of the prior state
\* when it is the first; no entry is dropped and none is added.
C12_FullCombinedState ==
  \A k \in 1..Len(out) :
    out[k].type = "STATE" =>
      LET before == SubSeq(out, 1, k - 1)
          prev == LastState(before, prior)
          data == out[k].data
          s == out[k].stream
      IN /\ DOMAIN data = (DOMAIN prev) \cup {s}
         /\ \A t \in (DOMAIN prev) \ {s} : data[t] = prev[t]
         /\ s = "Users" =>
              data[s] = [cursor |-> HeldCursor(prior) + Len(UserRecords(before)),
                         seed |-> seed]
         /\ s = "Purchases" =>
              data[s] = [purchases_count |->
                           HeldPurchasesCount(prior) + Len(PurchaseRecords(before))]
         /\ s = "Products" => data[s] = [product_count |-> NumProducts]

\* the state is built up from nothing, stream after stream
C12_Witness ==
  /\ prior = <<>>
  /\ pc = "done"
  /\ out # <<>>
  /\ DOMAIN out[Len(out)].data = {"Users", "Purchases", "Products"}
  /\ Len(PurchaseRecords(out)) >= 1

\* the entries of the streams that are not read are carried over
C12_WitnessCarried ==
  /\ DOMAIN prior = {"Users", "Purchases", "Products"}
  /\ catalog = <<"Users">>
  /\ pc = "done"
  /\ NumUsersOut >= 1

\* C13: in every purchase that generate_purchases returns, purchased_at is
\* absent when added_to_cart_at is absent and returned_at is absent when
\* purchased_at is absent, at whichever side of the gates the draws fall.
C13_CausalChain ==
  pc = "returned" =>
    \A k \in 1..Len(purchases) :
      /\ purchases[k].added_to_cart_at = None => purchases[k].purchased_at = None
      /\ purchases[k].purchased_at = None => purchases[k].returned_at = None

\* a purchase that was not bought and one that was bought and returned
C13_Witness ==
  /\ pc = "returned"
  /\ Len(purchases) = 2
  /\ purchases[1].purchased_at = None
  /\ purchases[1].returned_at = None
  /\ purchases[2].purchased_at # None
  /\ purchases[2].returned_at # None

\* C14: for a user created less than one whole day before the end date
\* (the end instant included) the sampling of added_to_cart_at raises no
\* error and gives the start date, created_at: read is not aborted when it
\* generates the purchases of that user.
C14_ZeroWidthRangeNoError ==
  (flags.to_generate_purchases /\ user # NoUser
     /\ 0 <= EndDate - user.created_at /\ EndDate - user.created_at < TicksPerDay) =>
    /\ err # RandrangeError
    /\ \A k \in 1..Len(purchases) : purchases[k].added_to_cart_at = user.created_at

\* the generator as it was before the user was generated
FakeBeforeUser == [fake EXCEPT !.n = fake.n - 3]

\* C15: in the user that generate_user(fake, i) returns, updated_at is not
\* before created_at, whichever of the two timestamps was drawn first and also
\* when they are equal, and id is i + 1.
C15_UserOrderAndId ==
  (pc = "returned" /\ fake # NoFake) =>
    /\ user.updated_at >= user.created_at
    /\ user.id = i + 1

\* the first timestamp drawn is the later one, at an index above 0
C15_Witness ==
  /\ pc = "returned"
  /\ fake # NoFake
  /\ i >= 1
  /\ fake_date_time(FakeBeforeUser.seed, FakeBeforeUser.n + 1)
       > fake_date_time(FakeBeforeUser.seed, FakeBeforeUser.n + 2)

\* the two timestamps drawn are equal
C15_WitnessEqual ==
  /\ pc = "returned"
  /\ fake # NoFake
  /\ fake_date_time(FakeBeforeUser.seed, FakeBeforeUser.n + 1)
       = fake_date_time(FakeBeforeUser.seed, FakeBeforeUser.n + 2)

\* the first timestamp drawn is the earlier one
C15_WitnessInOrder ==
  /\ pc = "returned"
  /\ fake # NoFake
  /\ fake_date_time(FakeBeforeUser.seed, FakeBeforeUser.n + 1)
       < fake_date_time(FakeBeforeUser.seed, FakeBeforeUser.n + 2)

\* the position of the last checkpoint of an output
LastCheckpoint(msgs) ==
  MaxOf({k \in 1..Len(msgs) : msgs[k].type = "STATE"})

\* C16: with Users and Purchases enabled, a sync that starts from the state of
\* a checkpoint of the sync before it, an intermediate Users checkpoint or a
\* final one, emits only Purchase ids above every Purchase id that the sync
\* before it emitted before that checkpoint; no sync of the chain was aborted
\* by an error.
C16_IdsIncreaseAcrossResumptions ==
  (Enabled(catalog, "Users") /\ Enabled(catalog, "Purchases")) =>
    \A r \in 1..Len(runs) :
      (AllRuns[r].err = "none" /\ EmittedState(AllRuns[r].out)) =>
        \A j \in 1..LastCheckpoint(AllRuns[r].out), k \in 1..Len(AllRuns[r + 1].out) :
          (IsPurchaseRecord(AllRuns[r].out[j]) /\ IsPurchaseRecord(AllRuns[r + 1].out[k])) =>
            AllRuns[r + 1].out[k].data.id > AllRuns[r].out[j].data.id

\* C17: every Purchase record comes after a User record; its user_id is the
\* id of the last User record before it, no Users checkpoint stands between
\* the two, and every Users checkpoint whose cursor has reached that user
\* comes after it.
C17_PurchasesInline ==
  \A k \in 1..Len(out) :
    IsPurchaseRecord(out[k]) =>
      LET us == {j \in Positions(out, "Users", "RECORD") : j < k}
      IN /\ us # {}
         /\ out[k].data.user_id = out[MaxOf(us)].data.id
         /\ \A c \in Positions(out, "Users", "STATE") :
              /\ ~(MaxOf(us) < c /\ c < k)
              /\ out[c].data["Users"].cursor >= out[k].data.user_id => c > k

\* two users with a purchase each and a checkpoint after each of them
C17_Witness ==
  /\ pc = "done"
  /\ NumUsersOut = 2
  /\ Len(PurchaseRecords(out)) = 2
  /\ PurchaseRecords(out)[1].data.user_id # PurchaseRecords(out)[2].data.user_id
  /\ Cardinality(Positions(out, "Users", "STATE")) = 3

\* C18: over a chain of invocations with Users enabled and records_per_sync
\* >= 1, the first started from the empty state and each next one from the
\* state the one before it left: the cursor never decreases; an invocation
\* that ends normally moves it on by records_per_sync, up to count, so that it
\* reaches count; the User ids of the chain are 1, 2, ... up to count at
\* most, each once and in this order; and an invocation that starts with the
\* cursor at count emits no User record and leaves the cursor where it is.
C18_ChainCoversUsers ==
  (Enabled(catalog, "Users") /\ records_per_sync >= 1 /\ AllRuns[1].prior = <<>>
     /\ \A r \in 1..Len(runs) : EmittedState(runs[r].out)) =>
    LET ids == Ids(UserRecords(Concat(AllRuns)))
    IN /\ \A k \in 1..Len(ids) : ids[k] = k
       /\ Len(ids) <= count
       /\ HeldCursor(state) >= HeldCursor(prior)
       /\ \A r \in 1..Len(runs) :
            /\ HeldCursor(AllRuns[r + 1].prior) >= HeldCursor(AllRuns[r].prior)
            /\ AllRuns[r].pc = "done" =>
                 HeldCursor(AllRuns[r + 1].prior) =
                   Min(count, HeldCursor(AllRuns[r].prior) + records_per_sync)
       /\ HeldCursor(prior) >= count =>
            /\ UserRecords(out) = <<>>
            /\ HeldCursor(state) = HeldCursor(prior)

\* t is at least one whole day before the end date
WholeDayBeforeEnd(t) == EndDate - t >= TicksPerDay

\* C19: for a user created at least one whole day before the end date,
\* generate_purchases does not raise, and in every purchase it returns
\* created_at <= added_to_cart_at <= purchased_at <= returned_at, for those
\* that are present, each of them at least one whole day before the end date.
C19_ChainedDatesInRange ==
  (user # NoUser /\ WholeDayBeforeEnd(user.created_at)) =>
    /\ pc # "raised"
    /\ \A k \in 1..Len(purchases) :
         LET p == purchases[k]
         IN /\ user.created_at <= p.added_to_cart_at
            /\ WholeDayBeforeEnd(p.added_to_cart_at)
            /\ p.purchased_at # None =>
                 /\ p.added_to_cart_at <= p.purchased_at
                 /\ WholeDayBeforeEnd(p.purchased_at)
            /\ p.returned_at # None =>
                 /\ p.purchased_at # None
                 /\ p.purchased_at <= p.returned_at
                 /\ WholeDayBeforeEnd(p.returned_at)

\* each of the three samplings moved the date on by a day or more
C19_Witness ==
  /\ pc = "returned"
  /\ Len(purchases) >= 1
  /\ user.created_at < purchases[1].added_to_cart_at
  /\ purchases[1].purchased_at # None
  /\ purchases[1].added_to_cart_at < purchases[1].purchased_at
  /\ purchases[1].returned_at # None
  /\ purchases[1].purchased_at < purchases[1].returned_at

\* a user created a day and a half before the end date, its purchase returned
C19_WitnessLastDay ==
  /\ pc = "returned"
  /\ EndDate - user.created_at = TicksPerDay + 1
  /\ Len(purchases) = 2
  /\ purchases[2].returned_at # None

\* the state that follows the first draw, and the value that was drawn
AfterFirstDraw == pc = "gp_while" /\ i = 0
FirstDraw == PercentStart - purchase_percent_remaining

\* C20: generate_purchases ends whatever is drawn: after i iterations the
\* budget is PercentStart - 1 - i at most and the list has i purchases,
\* PercentStart - 1 at most; a first draw of PercentStart or more is followed
\* by the return of the empty list, a smaller one by a purchase (or by an
\* error), and the list never shrinks.
C20_LoopTerminates ==
  /\ [](/\ Len(purchases) <= PercentStart - 1
        /\ pc \in {"gp_while", "returned"} => Len(purchases) = i
        /\ pc = "gp_while" => purchase_percent_remaining + i + 1 <= PercentStart)
  /\ [][/\ Len(purchases') >= Len(purchases)
        /\ AfterFirstDraw =>
             IF FirstDraw >= PercentStart
             THEN pc' = "returned" /\ purchases' = <<>>
             ELSE pc' = "raised" \/ Len(purchases') = 1]_vars
  /\ <>(pc \in {"returned", "raised"})

\* every draw was 1: the longest list is returned
C20_Witness ==
  /\ pc = "returned"
  /\ Len(purchases) = PercentStart - 1

\* the first draw used up the budget exactly: nothing is returned
C20_WitnessNone ==
  /\ pc = "returned"
  /\ i = 0
  /\ FirstDraw = PercentStart
  /\ purchases = <<>>

\* one purchase is returned, the budget used up exactly
C20_WitnessOne ==
  /\ pc = "returned"
  /\ Len(purchases) = 1
  /\ purchase_percent_remaining = 0

====
